---- MODULE Spec2Model ----
(***************************************************************************)
(* A model of sims/photUtils/EBV.py: the dust map (EBVmap), its sampling   *)
(* (generateEbv, interp1D), the class-level map cache of EBVbase           *)
(* (_load_ebv_map, load_ebvMapNorth, load_ebvMapSouth) and the router      *)
(* calculateEbv.                                                           *)
(*                                                                         *)
(* Representation of numbers.                                              *)
(*  - Angles are kept in whole degrees: an input angle of r radians is the *)
(*    integer r*rad2deg (line 74), and the inputs are drawn from angles    *)
(*    whose sines have closed forms.                                       *)
(*  - Pixel coordinates and the other reals of xyFromSky are fixed-point   *)
(*    numbers: the integer n stands for n/Den.  Lengths in the projection  *)
(*    plane and the CD header values are kept in units of rad2deg, so      *)
(*    that "2.0 * rad2deg * sin(..)" is 2*sin(..).                         *)
(*  - Map samples are binary floating-point numbers with MantissaBits      *)
(*    bits of precision (round to nearest, ties to even), the integer n    *)
(*    standing for n quanta; Fl rounds an exact result as one floating-    *)
(*    point operation does.                                                *)
(***************************************************************************)
EXTENDS Integers, Sequences, FiniteSets, TLC

VARIABLES
    cache,      \* EBVbase._ebv_map_cache: file name -> EBVmap (None when absent)
    nLoaded,    \* per file name, how many EBVmap objects _load_ebv_map has read from it
    nOpen,      \* per file name, how many times _load_ebv_map opened it and read its image
    inst,       \* the EBVbase instances: their ebvMapNorthName/SouthName, ebvMapNorth/South
    last,       \* the calculateEbv call that has returned or raised and that the caller
                \* has not taken yet: its arguments, what it did, its outcome
    pc,         \* per thread, its position inside _load_ebv_map
    tFile,      \* per thread, the file_name argument of its _load_ebv_map call
    tMap,       \* per thread, its local ebv_map
    tRet,       \* per thread, what its _load_ebv_map call returned
    sample      \* a generateEbv query on pixel coordinates and its result

vars == <<cache, nLoaded, nOpen, inst, last, pc, tFile, tMap, tRet, sample>>

\* An EBVmap object read by _load_ebv_map is named by the file it was read from
\* and its rank among the objects read from that file: two references are the
\* same object exactly when they are equal.  None is the reference to no object.
None == [file |-> "", n |-> 0]

Obj(file_name, k) == [file |-> file_name, n |-> k]

\* no exception was raised
NoExc == "none"

----------------------------------------------------------------------------
(* Bounds of the model *)

FracBits == 3
MantissaBits == 3
MaxPix == 5
NumInst == 2
MaxBatch == 2
MaxFailures == 1
NumThreads == 2

----------------------------------------------------------------------------
(* Arithmetic *)

Abs(n) == IF n < 0 THEN -n ELSE n

Sgn(n) == IF n < 0 THEN -1 ELSE 1

Min(a, b) == IF a <= b THEN a ELSE b

Max(a, b) == IF a >= b THEN a ELSE b

\* the integer nearest to a/d, ties to the even one (a >= 0, d > 0)
RoundHalfEven(a, d) ==
    LET q == a \div d
        r == a % d
    IN  IF 2 * r < d THEN q
        ELSE IF 2 * r > d THEN q + 1
        ELSE IF q % 2 = 0 THEN q ELSE q + 1

\* the integer nearest to n/d for any sign of n
RoundDiv(n, d) == Sgn(n) * RoundHalfEven(Abs(n), d)

Den == 2 ^ FracBits

FxMul(a, b) == RoundDiv(a * b, Den)

FxDiv(a, b) == Sgn(b) * RoundDiv(a * Den, Abs(b))

\* sqrt(num/den) as a fixed-point number, for 0 <= num <= den
FxSqrt(num, den) ==
    CHOOSE n \in 0..Den :
        \A m \in 0..Den :
            Abs(n * n * den - num * Den * Den) <= Abs(m * m * den - num * Den * Den)

\* number of bits of k >= 0
RECURSIVE BitLen(_)
BitLen(k) == IF k = 0 THEN 0 ELSE 1 + BitLen(k \div 2)

\* the floating-point number nearest to num/den (den > 0)
Fl(num, den) ==
    LET a == Abs(num)
        e == Max(0, BitLen(a \div den) - MantissaBits)
        q == 2 ^ e
    IN  Sgn(num) * q * RoundHalfEven(a, den * q)

----------------------------------------------------------------------------
(* The map files.  A file on disk is absent (NoFile) or holds an image and  *)
(* a header.                                                                *)

\* os.environ.get("SIMS_MAPS_DIR"), the variable being set
ebvDataDir == "/sims_maps"

ebvMapNorthName == "DustMaps/SFD_dust_4096_ngp.fits"

ebvMapSouthName == "DustMaps/SFD_dust_4096_sgp.fits"

\* a file name a user passes to set_ebvMapNorth / set_ebvMapSouth
userMapName == "DustMaps/my_dust.fits"

\* the words the program passes to set_ebvMapNorth / set_ebvMapSouth
UserWords == {userMapName}

MapNames == {ebvMapNorthName, ebvMapSouthName, userMapName}

\* os.path.join on a relative name
PathJoin(dir, name) == dir \o "/" \o name

Paths == {PathJoin(ebvDataDir, n) : n \in MapNames}

NoFile == [missing |-> TRUE]

\* a northern map (CRVAL2 = 90), 3 rows by 3 columns, one pixel per unit length
NorthFits ==
    [data   |-> << <<4, 1, 10>>, <<2, 5, 12>>, <<7, 0, 3>> >>,
     header |-> [CD1_1 |-> Den, CD2_2 |-> Den, CRPIX1 |-> 2 * Den, CRVAL1 |-> 0,
                 CRPIX2 |-> 2 * Den, CRVAL2 |-> 90, LAM_NSGP |-> 1,
                 LAM_SCAL |-> 1, LONPOLE |-> 180]]

\* a southern map (CRVAL2 = -90), 3 rows by 4 columns
SouthFits ==
    [data   |-> << <<6, 2, 0, 5>>, <<1, 14, 3, 2>>, <<0, 4, 8, 1>> >>,
     header |-> [CD1_1 |-> Den, CD2_2 |-> Den, CRPIX1 |-> 2 * Den, CRVAL1 |-> 0,
                 CRPIX2 |-> 2 * Den, CRVAL2 |-> -90, LAM_NSGP |-> -1,
                 LAM_SCAL |-> 1, LONPOLE |-> 180]]

\* a user's northern map, 2 rows by 2 columns
UserFits ==
    [data   |-> << <<3, 6>>, <<12, 1>> >>,
     header |-> [CD1_1 |-> Den, CD2_2 |-> Den, CRPIX1 |-> Den, CRVAL1 |-> 0,
                 CRPIX2 |-> Den, CRVAL2 |-> 90, LAM_NSGP |-> 1,
                 LAM_SCAL |-> 1, LONPOLE |-> 180]]

GoodFits(path) ==
    IF path = PathJoin(ebvDataDir, ebvMapNorthName) THEN NorthFits
    ELSE IF path = PathJoin(ebvDataDir, ebvMapSouthName) THEN SouthFits
    ELSE UserFits

\* the same file with a header that lacks the projection keys
BadHeaderFits(path) ==
    [data   |-> GoodFits(path).data,
     header |-> [CD1_1 |-> Den, CD2_2 |-> Den, CRPIX1 |-> Den, CRVAL1 |-> 0,
                 CRPIX2 |-> Den, CRVAL2 |-> 90]]

\* what may be on disk under a path when it is opened
DiskStates(path) == {NoFile, GoodFits(path), BadHeaderFits(path)}

----------------------------------------------------------------------------
(* EBVmap *)

HeaderKeys ==
    {"CD1_1", "CD2_2", "CRPIX1", "CRVAL1", "CRPIX2", "CRVAL2",
     "LAM_NSGP", "LAM_SCAL", "LONPOLE"}

\* readMapFits: the exception it raises, or the fields it leaves on the EBVmap
readMapFits(fileName, disk) ==
    IF disk = NoFile THEN [exc |-> "IOError"]
    ELSE IF ~(HeaderKeys \subseteq DOMAIN disk.header) THEN [exc |-> "KeyError"]
    ELSE [exc       |-> NoExc,
          file_name |-> fileName,
          data      |-> disk.data,
          nr        |-> Len(disk.data),
          nc        |-> Len(disk.data[1]),
          cd11      |-> disk.header.CD1_1,
          cd22      |-> disk.header.CD2_2,
          cd12      |-> 0,
          cd21      |-> 0,
          crpix1    |-> disk.header.CRPIX1,
          crval1    |-> disk.header.CRVAL1,
          crpix2    |-> disk.header.CRPIX2,
          crval2    |-> disk.header.CRVAL2,
          nsgp      |-> disk.header.LAM_NSGP,
          scale     |-> disk.header.LAM_SCAL,
          lonpole   |-> disk.header.LONPOLE]

\* whether fits.open succeeded and the image was read (lines 36-40)
OpensFile(disk) == disk # NoFile

\* sin and cos of a multiple of 90 degrees, fixed-point
SinDeg(phi) ==
    CASE phi = 0 -> 0 [] phi = 90 -> Den [] phi = 180 -> 0 [] phi = 270 -> -Den

CosDeg(phi) ==
    CASE phi = 0 -> Den [] phi = 90 -> 0 [] phi = 180 -> -Den [] phi = 270 -> 0

Sin45 == FxSqrt(1, 2)

Sin60 == FxSqrt(3, 4)

\* sin(a/2 degrees) for a = 90 - theta, fixed-point
SinHalf(a) ==
    CASE a = 0 -> 0
      [] a = 60 -> Den \div 2
      [] a = 90 -> Sin45
      [] a = 120 -> Sin60
      [] a = 180 -> Den

xyFromSky(m, gLon, gLat) ==
    LET north == m.crval2 * 10000 > 899999
        south == m.crval2 * 10000 < -899999
        theta == IF north THEN gLat ELSE IF south THEN -gLat ELSE gLat
        phi0  == IF north THEN gLon + 180 + m.lonpole - m.crval1
                 ELSE IF south THEN m.lonpole + m.crval1 - gLon
                 ELSE gLon + 180 + m.lonpole - m.crval1
        phi   == phi0 % 360
        Rtheta == 2 * SinHalf(90 - theta)
        xr    == FxMul(Rtheta, SinDeg(phi))
        yr    == -FxMul(Rtheta, CosDeg(phi))
        denom == FxMul(m.cd11, m.cd22) - FxMul(m.cd12, m.cd21)
        x     == FxDiv(FxMul(m.cd22, xr) - FxMul(m.cd12, yr), denom) + (m.crpix1 - Den)
        y     == FxDiv(FxMul(m.cd11, yr) - FxMul(m.cd21, xr), denom) + (m.crpix2 - Den)
    IN  <<x, y>>

\* float -> int as numpy's astype(int) does it: truncation toward zero
AsInt(v) == Sgn(v) * (Abs(v) \div Den)

\* interp1D, each operation rounded; offset is a fixed-point number
interp1D(z1, z2, offset) ==
    LET diff == Fl(z2 - z1, 1)
        prod == Fl(diff * offset, Den)
    IN  Fl(prod + z1, 1)

\* whether data[ii][jj] is an index numpy accepts (a negative index counts from the end)
IndexOk(m, ii, jj) == /\ -m.nr <= ii /\ ii < m.nr
                      /\ -m.nc <= jj /\ jj < m.nc

\* data[ii][jj]
At(m, ii, jj) == m.data[(ii % m.nr) + 1][(jj % m.nc) + 1]

\* lines 121-135: the pixel indices of a point with pixel coordinates (x, y)
PixelIx(x) == AsInt(x + Den \div 2)

IxLow(m, x) == Min(PixelIx(x), m.nc - 2)

IxHigh(m, x) == IxLow(m, x) + 1

Dx(m, x) == x - IxLow(m, x) * Den

IyLow(m, y) == Min(PixelIx(y), m.nr - 2)

IyHigh(m, y) == IyLow(m, y) + 1

Dy(m, y) == y - IyLow(m, y) * Den

\* the cells data[ii][jj] that lines 139-150 subscript for one point, as <<ii, jj>>
CellsRead(m, x, y, interpolate) ==
    IF interpolate
    THEN {<<IyLow(m, y), IxLow(m, x)>>, <<IyLow(m, y), IxHigh(m, x)>>,
          <<IyHigh(m, y), IxLow(m, x)>>, <<IyHigh(m, y), IxHigh(m, x)>>}
    ELSE {<<PixelIx(y), PixelIx(x)>>}

\* lines 121-152 for one point: the value, or IndexError
SampleEbv(m, x, y, interpolate) ==
    IF \E c \in CellsRead(m, x, y, interpolate) : ~IndexOk(m, c[1], c[2])
    THEN [exc |-> "IndexError"]
    ELSE IF interpolate
    THEN LET xLow  == interp1D(At(m, IyLow(m, y), IxLow(m, x)),
                               At(m, IyLow(m, y), IxHigh(m, x)), Dx(m, x))
             xHigh == interp1D(At(m, IyHigh(m, y), IxLow(m, x)),
                               At(m, IyHigh(m, y), IxHigh(m, x)), Dx(m, x))
         IN  [exc |-> NoExc, ebvVal |-> interp1D(xLow, xHigh, Dy(m, y))]
    ELSE [exc |-> NoExc, ebvVal |-> At(m, PixelIx(y), PixelIx(x))]

\* generateEbv on arrays glon, glat: the array of values, or IndexError
generateEbv(m, glon, glat, interpolate) ==
    LET xy  == [k \in DOMAIN glon |-> xyFromSky(m, glon[k], glat[k])]
        one == [k \in DOMAIN glon |-> SampleEbv(m, xy[k][1], xy[k][2], interpolate)]
    IN  IF \E k \in DOMAIN glon : one[k].exc # NoExc
        THEN [exc |-> "IndexError"]
        ELSE [exc |-> NoExc, ebvVal |-> [k \in DOMAIN glon |-> one[k].ebvVal]]

----------------------------------------------------------------------------
(* generateEbv as a function of the projected pixel coordinates: the query  *)
(* is drawn in the initial state and QuerySample answers it.                *)

SampleCoords == (-(MaxPix * Den))..(MaxPix * Den)

\* the EBVmap read from the good file under a path
MapOf(path) == readMapFits(path, GoodFits(path))

Idle == [pc |-> "idle"]

QuerySample ==
    /\ sample.pc = "call"
    /\ LET m == MapOf(sample.file)
           r == SampleEbv(m, sample.x, sample.y, sample.interpolate)
       IN  sample' = [pc          |-> "done",
                      file        |-> sample.file,
                      x           |-> sample.x,
                      y           |-> sample.y,
                      interpolate |-> sample.interpolate,
                      exc         |-> r.exc,
                      ebvVal      |-> IF r.exc = NoExc THEN r.ebvVal ELSE 0,
                      cells       |-> CellsRead(m, sample.x, sample.y, sample.interpolate),
                      ixLow       |-> IF sample.interpolate THEN IxLow(m, sample.x) ELSE 0,
                      ixHigh      |-> IF sample.interpolate THEN IxHigh(m, sample.x) ELSE 0,
                      dx          |-> IF sample.interpolate THEN Dx(m, sample.x) ELSE 0,
                      iyLow       |-> IF sample.interpolate THEN IyLow(m, sample.y) ELSE 0,
                      iyHigh      |-> IF sample.interpolate THEN IyHigh(m, sample.y) ELSE 0,
                      dy          |-> IF sample.interpolate THEN Dy(m, sample.y) ELSE 0]
    /\ UNCHANGED <<cache, nLoaded, nOpen, inst, last, pc, tFile, tMap, tRet>>

----------------------------------------------------------------------------
(* EBVbase.  A world is the part of the state the methods act on:           *)
(* [cache, nLoaded, nOpen, inst].  A method maps a world to the world it       *)
(* leaves, the exception it raises and what it returns.                     *)

Instances == 1..NumInst

Threads == 1..NumThreads

\* the EBVmap the caller read itself, to pass as northMap or southMap
CallerMap == Obj(PathJoin(ebvDataDir, userMapName), 0)

\* the fields of an EBVmap object
Fields(obj) == MapOf(obj.file)

\* _load_ebv_map without the lookup of lines 230-231
load_ebv_map_uncached(w, file_name, disk) ==
    LET r  == readMapFits(file_name, disk)
        w1 == IF OpensFile(disk)
              THEN [w EXCEPT !.nOpen[file_name] = @ + 1]
              ELSE w
        ebv_map == Obj(file_name, w.nLoaded[file_name] + 1)
    IN  IF r.exc # NoExc
        THEN [w |-> w1, exc |-> r.exc, ret |-> None]
        ELSE [w   |-> [w1 EXCEPT !.nLoaded[file_name] = @ + 1,
                                 !.cache[file_name] = ebv_map],
              exc |-> NoExc, ret |-> ebv_map]

\* _load_ebv_map with line 235 moved before line 234: the entry is stored, then read
load_ebv_map_stored_first(w, file_name, disk) ==
    IF w.cache[file_name] # None
    THEN [w |-> w, exc |-> NoExc, ret |-> w.cache[file_name]]
    ELSE LET r  == readMapFits(file_name, disk)
             ebv_map == Obj(file_name, w.nLoaded[file_name] + 1)
             w1 == [w EXCEPT !.nOpen[file_name] = IF OpensFile(disk) THEN @ + 1 ELSE @,
                             !.cache[file_name] = ebv_map]
         IN  IF r.exc # NoExc
             THEN [w |-> w1, exc |-> r.exc, ret |-> None]
             ELSE [w   |-> [w1 EXCEPT !.nLoaded[file_name] = @ + 1],
                   exc |-> NoExc, ret |-> ebv_map]

\* one _load_ebv_map call: lines 230-236
load_ebv_map(w, file_name, disk) ==
    IF w.cache[file_name] # None
    THEN [w |-> w, exc |-> NoExc, ret |-> w.cache[file_name]]
    ELSE LET r  == readMapFits(file_name, disk)
             w1 == IF OpensFile(disk)
                   THEN [w EXCEPT !.nOpen[file_name] = @ + 1]
                   ELSE w
             ebv_map == Obj(file_name, w.nLoaded[file_name] + 1)
         IN  IF r.exc # NoExc
             THEN [w |-> w1, exc |-> r.exc, ret |-> None]
             ELSE [w   |-> [w1 EXCEPT !.nLoaded[file_name] = @ + 1,
                                      !.cache[file_name] = ebv_map],
                   exc |-> NoExc, ret |-> ebv_map]

NorthPath(w, self) == PathJoin(ebvDataDir, w.inst[self].ebvMapNorthName)

SouthPath(w, self) == PathJoin(ebvDataDir, w.inst[self].ebvMapSouthName)

\* load_ebvMapNorth: lines 242-244
load_ebvMapNorth(w, self, disk) ==
    LET r == load_ebv_map(w, NorthPath(w, self), disk)
    IN  IF r.exc # NoExc
        THEN [w |-> r.w, exc |-> r.exc]
        ELSE [w |-> [r.w EXCEPT !.inst[self].ebvMapNorth = r.ret], exc |-> NoExc]

\* load_ebvMapSouth: lines 250-252
load_ebvMapSouth(w, self, disk) ==
    LET r == load_ebv_map(w, SouthPath(w, self), disk)
    IN  IF r.exc # NoExc
        THEN [w |-> r.w, exc |-> r.exc]
        ELSE [w |-> [r.w EXCEPT !.inst[self].ebvMapSouth = r.ret], exc |-> NoExc]

\* lsst.sims.utils._galacticFromEquatorial at the sampled points, to the degree
galacticFromEquatorial(ra, dec) ==
    CASE <<ra, dec>> = <<269, 61>>  -> <<90, 30>>
      [] <<ra, dec>> = <<266, -29>> -> <<0, 0>>
      [] <<ra, dec>> = <<342, 25>>  -> <<90, -30>>

\* lines 314-315: the reduce that splits the indices by the sign of the latitude
RECURSIVE PartitionFrom(_, _, _)
PartitionFrom(lats, k, acc) ==
    IF k > Len(lats) THEN acc
    ELSE PartitionFrom(lats, k + 1,
                       IF lats[k] > 0
                       THEN <<Append(acc[1], k), acc[2]>>
                       ELSE <<acc[1], Append(acc[2], k)>>)

\* the split with y[1] >= 0.0 for the test of lines 314-315
RECURSIVE PartitionNonNegativeFrom(_, _, _)
PartitionNonNegativeFrom(lats, k, acc) ==
    IF k > Len(lats) THEN acc
    ELSE PartitionNonNegativeFrom(lats, k + 1,
                                  IF lats[k] >= 0
                                  THEN <<Append(acc[1], k), acc[2]>>
                                  ELSE <<acc[1], Append(acc[2], k)>>)

PartitionNonNegative(lats) == PartitionNonNegativeFrom(lats, 1, << <<>>, <<>> >>)

Partition(lats) == PartitionFrom(lats, 1, << <<>>, <<>> >>)

\* lines 323-327: for (i, ee) in zip(idx, vals): ebv[i] = ee
RECURSIVE ScatterFrom(_, _, _, _)
ScatterFrom(ebv, idx, vals, k) ==
    IF k > Min(Len(idx), Len(vals)) THEN ebv
    ELSE ScatterFrom([ebv EXCEPT ![idx[k]] = vals[k]], idx, vals, k + 1)

\* the loop of lines 323-327 with ebv[k] = ee for the k-th pair
ScatterInOrder(ebv, idx, vals) ==
    [i \in DOMAIN ebv |-> IF i <= Min(Len(idx), Len(vals)) THEN vals[i] ELSE ebv[i]]

Scatter(ebv, idx, vals) == ScatterFrom(ebv, idx, vals, 1)

\* galacticCoordinates[:, idx]
Columns(coords, idx) == [k \in 1..Len(idx) |-> coords[idx[k]]]

Row(coords, r) == [k \in 1..Len(coords) |-> coords[k][r]]

\* an argument that was not passed (None), and a coordinate array
NotGiven == [given |-> FALSE, cols |-> <<>>]

Given(cols) == [given |-> TRUE, cols |-> cols]

\* what a call that did nothing leaves in `last`
NoCall ==
    [op |-> "none", self |-> 0, exc |-> NoExc, galGiven |-> FALSE, equGiven |-> FALSE,
     northArg |-> None, southArg |-> None, interp |-> FALSE,
     gal |-> <<>>, inorth |-> <<>>, isouth |-> <<>>, nSet |-> <<>>, sSet |-> <<>>,
     northMap |-> None, southMap |-> None, ebvNorth |-> <<>>, ebvSouth |-> <<>>,
     isNone |-> TRUE, ebv |-> <<>>]

\* line 277: galacticCoordinates is not None and equatorialCoordinates is not None
BothGiven(galArg, equArg) == galArg.given /\ equArg.given

\* a check of line 286 that lets every call through
NeitherGivenUnchecked(galArg, equArg) == FALSE

\* lines 283-286: galacticCoordinates is None and equatorialCoordinates is None
NeitherGiven(galArg, equArg) == ~galArg.given /\ ~equArg.given

\* calculateEbv: lines 276-329.  diskN and diskS are what is on disk under the
\* north and the south path if the call opens them.
calculateEbv(w, self, galArg, equArg, northArg, southArg, interp, diskN, diskS) ==
    LET call == [NoCall EXCEPT !.op = "calculateEbv", !.self = self,
                               !.galGiven = galArg.given, !.equGiven = equArg.given,
                               !.northArg = northArg, !.southArg = southArg,
                               !.interp = interp]
    IN
    IF BothGiven(galArg, equArg)
    THEN [w |-> w, call |-> [call EXCEPT !.exc = "RuntimeError"]]
    ELSE IF NeitherGiven(galArg, equArg)
    THEN [w |-> w, call |-> [call EXCEPT !.exc = "RuntimeError"]]
    ELSE
    LET gal == IF galArg.given THEN galArg.cols
               ELSE [k \in 1..Len(equArg.cols) |->
                        galacticFromEquatorial(equArg.cols[k][1], equArg.cols[k][2])]
        loadN == northArg = None /\ w.inst[self].ebvMapNorth = None
        rN == IF loadN THEN load_ebvMapNorth(w, self, diskN)
              ELSE [w |-> w, exc |-> NoExc]
        wN == rN.w
        northMap == IF northArg # None THEN northArg ELSE wN.inst[self].ebvMapNorth
    IN
    IF rN.exc # NoExc
    THEN [w |-> wN, call |-> [call EXCEPT !.exc = rN.exc, !.gal = gal]]
    ELSE
    LET loadS == southArg = None /\ wN.inst[self].ebvMapSouth = None
        rS == IF loadS THEN load_ebvMapSouth(wN, self, diskS)
              ELSE [w |-> wN, exc |-> NoExc]
        wS == rS.w
        southMap == IF southArg # None THEN southArg ELSE wS.inst[self].ebvMapSouth
        c2 == [call EXCEPT !.gal = gal,
                           !.northMap = northMap, !.southMap = southMap]
    IN
    IF rS.exc # NoExc
    THEN [w |-> wS, call |-> [c2 EXCEPT !.exc = rS.exc]]
    ELSE IF ~(Len(gal) > 0)
    THEN [w |-> wS, call |-> c2]
    ELSE
    LET parts == Partition(Row(gal, 2))
        inorth == parts[1]
        isouth == parts[2]
        nSet == Columns(gal, inorth)
        sSet == Columns(gal, isouth)
        c3 == [c2 EXCEPT !.inorth = inorth, !.isouth = isouth, !.nSet = nSet, !.sSet = sSet]
        ebvNorth == generateEbv(Fields(northMap), Row(nSet, 1), Row(nSet, 2), interp)
    IN
    IF ebvNorth.exc # NoExc
    THEN [w |-> wS, call |-> [c3 EXCEPT !.exc = ebvNorth.exc]]
    ELSE
    LET ebvSouth == generateEbv(Fields(southMap), Row(sSet, 1), Row(sSet, 2), interp)
        zeros == [k \in 1..Len(gal) |-> 0]
        ebv == Scatter(Scatter(zeros, inorth, ebvNorth.ebvVal), isouth, ebvSouth.ebvVal)
    IN
    IF ebvSouth.exc # NoExc
    THEN [w |-> wS, call |-> [c3 EXCEPT !.exc = ebvSouth.exc, !.ebvNorth = ebvNorth.ebvVal]]
    ELSE [w |-> wS, call |-> [c3 EXCEPT !.ebvNorth = ebvNorth.ebvVal,
                                        !.ebvSouth = ebvSouth.ebvVal,
                                        !.isNone = FALSE, !.ebv = ebv]]

----------------------------------------------------------------------------
(* The calls a program makes, one after another.                            *)

\* galactic (longitude, latitude) and equatorial (ra, dec) points, in degrees
GalCoords == {<<0, 90>>, <<90, 30>>, <<0, 0>>, <<90, -30>>}

EquCoords == {<<269, 61>>, <<266, -29>>}

\* the arrays of at most n columns drawn from S
BatchesUpTo(S, n) == UNION {[1..k -> S] : k \in 0..n}

\* the (galacticCoordinates, equatorialCoordinates) pairs a call passes
CoordArgs ==
    {<<NotGiven, NotGiven>>}
    \cup {<<Given(b), NotGiven>> : b \in BatchesUpTo(GalCoords, MaxBatch)}
    \cup {<<NotGiven, Given(b)>> : b \in BatchesUpTo(EquCoords, MaxBatch)}
    \cup {<<Given(b), Given(c)>> : b \in BatchesUpTo({<<90, 30>>}, 1),
                                   c \in BatchesUpTo({<<269, 61>>}, 1)}

World == [cache |-> cache, nLoaded |-> nLoaded, nOpen |-> nOpen, inst |-> inst]

\* the sum of f over the set S
RECURSIVE Total(_, _)
Total(f, S) ==
    IF S = {} THEN 0
    ELSE LET p == CHOOSE q \in S : TRUE IN f[p] + Total(f, S \ {p})

\* how many times a file was opened and its load failed
Failures(w) == Total(w.nOpen, Paths) - Total(w.nLoaded, Paths)

\* the world a call leaves becomes the state; the files on disk make a load
\* fail after fits.open at most MaxFailures times in all
Commit(w) ==
    /\ Failures(w) <= MaxFailures
    /\ cache' = w.cache
    /\ nLoaded' = w.nLoaded
    /\ nOpen' = w.nOpen
    /\ inst' = w.inst

\* set_ebvMapNorth: line 215
SetEbvMapNorth(self, word) ==
    /\ inst' = [inst EXCEPT ![self].ebvMapNorthName = word]
    /\ last' = NoCall
    /\ UNCHANGED <<cache, nLoaded, nOpen, pc, tFile, tMap, tRet, sample>>

\* set_ebvMapSouth: line 221
SetEbvMapSouth(self, word) ==
    /\ inst' = [inst EXCEPT ![self].ebvMapSouthName = word]
    /\ last' = NoCall
    /\ UNCHANGED <<cache, nLoaded, nOpen, pc, tFile, tMap, tRet, sample>>

\* a call of _load_ebv_map(file_name), on any instance: it uses the class's cache only
LoadEbvMap(file_name) ==
    \E disk \in DiskStates(file_name) :
        /\ Commit(load_ebv_map(World, file_name, disk).w)
        /\ last' = NoCall
        /\ UNCHANGED <<pc, tFile, tMap, tRet, sample>>

\* a call of load_ebvMapNorth()
LoadEbvMapNorth(self) ==
    \E disk \in DiskStates(NorthPath(World, self)) :
        /\ Commit(load_ebvMapNorth(World, self, disk).w)
        /\ last' = NoCall
        /\ UNCHANGED <<pc, tFile, tMap, tRet, sample>>

\* a call of load_ebvMapSouth()
LoadEbvMapSouth(self) ==
    \E disk \in DiskStates(SouthPath(World, self)) :
        /\ Commit(load_ebvMapSouth(World, self, disk).w)
        /\ last' = NoCall
        /\ UNCHANGED <<pc, tFile, tMap, tRet, sample>>

\* a call of calculateEbv(galacticCoordinates, equatorialCoordinates, northMap, southMap, interp)
CalculateEbv(self) ==
    /\ last = NoCall
    /\ \E coords \in CoordArgs, northArg \in {None, CallerMap}, southArg \in {None, CallerMap},
          interp \in BOOLEAN :
           LET loadsN == northArg = None /\ inst[self].ebvMapNorth = None
               loadsS == southArg = None /\ inst[self].ebvMapSouth = None
           IN  \E diskN \in (IF loadsN THEN DiskStates(NorthPath(World, self)) ELSE {NoFile}),
                  diskS \in (IF loadsS THEN DiskStates(SouthPath(World, self)) ELSE {NoFile}) :
                   LET r == calculateEbv(World, self, coords[1], coords[2], northArg, southArg,
                                         interp, diskN, diskS)
                   IN  /\ Commit(r.w)
                       /\ last' = r.call
                       /\ UNCHANGED <<pc, tFile, tMap, tRet, sample>>

\* the caller takes what the call returned or raised, and goes on
TakeResult ==
    /\ last # NoCall
    /\ last' = NoCall
    /\ UNCHANGED <<cache, nLoaded, nOpen, inst, pc, tFile, tMap, tRet, sample>>

Fresh ==
    [ebvMapNorthName |-> ebvMapNorthName, ebvMapSouthName |-> ebvMapSouthName,
     ebvMapNorth |-> None, ebvMapSouth |-> None]

\* the state when the module has been imported and the instances constructed
Init ==
    /\ cache = [p \in Paths |-> None]
    /\ nLoaded = [p \in Paths |-> 0]
    /\ nOpen = [p \in Paths |-> 0]
    /\ inst = [i \in Instances |-> Fresh]
    /\ last = NoCall
    /\ pc = [t \in Threads |-> "idle"]
    /\ tFile = [t \in Threads |-> ""]
    /\ tMap = [t \in Threads |-> None]
    /\ tRet = [t \in Threads |-> None]
    /\ sample = Idle

(* One EBVbase instance, used as the class's documentation shows (lines     *)
(* 171-176): ebvObject = EBVbase(), then calls on it.                       *)
ebvObject == 1

Next ==
    \/ \E word \in UserWords : SetEbvMapNorth(ebvObject, word)
    \/ \E word \in UserWords : SetEbvMapSouth(ebvObject, word)
    \/ LoadEbvMapNorth(ebvObject)
    \/ LoadEbvMapSouth(ebvObject)
    \/ CalculateEbv(ebvObject)
    \/ TakeResult

Spec == Init /\ [][Next]_vars

(* A program that only queries, as selectStarSED.py does.                   *)
NextQuery ==
    \/ CalculateEbv(ebvObject)
    \/ TakeResult

SpecQuery == Init /\ [][NextQuery]_vars

(* Threads that each call _load_ebv_map once.  Nothing in lines 224-236     *)
(* holds a lock, and readMapFits does file I/O, so another thread can run   *)
(* between any two statements.                                              *)

\* a thread enters _load_ebv_map(file_name)
ThreadCall(t, file_name) ==
    /\ pc[t] = "idle"
    /\ pc' = [pc EXCEPT ![t] = "check"]
    /\ tFile' = [tFile EXCEPT ![t] = file_name]
    /\ UNCHANGED <<cache, nLoaded, nOpen, inst, last, tMap, tRet, sample>>

\* lines 230-231: the lookup, and the return on a hit
ThreadCheck(t) ==
    /\ pc[t] = "check"
    /\ IF cache[tFile[t]] # None
       THEN /\ tRet' = [tRet EXCEPT ![t] = cache[tFile[t]]]
            /\ pc' = [pc EXCEPT ![t] = "done"]
       ELSE /\ pc' = [pc EXCEPT ![t] = "read"]
            /\ UNCHANGED tRet
    /\ UNCHANGED <<cache, nLoaded, nOpen, inst, last, tFile, tMap, sample>>

\* lines 233-234: ebv_map = EBVmap(); ebv_map.readMapFits(file_name)
ThreadRead(t) ==
    /\ pc[t] = "read"
    /\ \E disk \in DiskStates(tFile[t]) :
        LET r == readMapFits(tFile[t], disk)
        IN  /\ nOpen' = IF OpensFile(disk) THEN [nOpen EXCEPT ![tFile[t]] = @ + 1] ELSE nOpen
            /\ IF r.exc # NoExc
               THEN /\ pc' = [pc EXCEPT ![t] = "raised"]
                    /\ UNCHANGED <<nLoaded, tMap>>
               ELSE /\ pc' = [pc EXCEPT ![t] = "insert"]
                    /\ nLoaded' = [nLoaded EXCEPT ![tFile[t]] = @ + 1]
                    /\ tMap' = [tMap EXCEPT ![t] = Obj(tFile[t], nLoaded[tFile[t]] + 1)]
    /\ UNCHANGED <<cache, inst, last, tFile, tRet, sample>>

\* lines 235-236: the insertion, and the return of ebv_map
ThreadInsert(t) ==
    /\ pc[t] = "insert"
    /\ cache' = [cache EXCEPT ![tFile[t]] = tMap[t]]
    /\ tRet' = [tRet EXCEPT ![t] = tMap[t]]
    /\ pc' = [pc EXCEPT ![t] = "done"]
    /\ UNCHANGED <<nLoaded, nOpen, inst, last, tFile, tMap, sample>>

NextThreads ==
    \E t \in Threads :
        \/ \E file_name \in Paths : ThreadCall(t, file_name)
        \/ ThreadCheck(t)
        \/ ThreadRead(t)
        \/ ThreadInsert(t)

SpecThreads == Init /\ [][NextThreads]_vars

(* Map resolutions issued by all the instances, which share the class-level *)
(* cache.                                                                   *)
NextCache ==
    \/ \E file_name \in Paths : LoadEbvMap(file_name)
    \/ \E self \in Instances :
        \/ \E word \in UserWords : SetEbvMapNorth(self, word)
        \/ \E word \in UserWords : SetEbvMapSouth(self, word)
        \/ LoadEbvMapNorth(self)
        \/ LoadEbvMapSouth(self)

SpecCache == Init /\ [][NextCache]_vars

InitSample ==
    /\ cache = [p \in Paths |-> None]
    /\ nLoaded = [p \in Paths |-> 0]
    /\ nOpen = [p \in Paths |-> 0]
    /\ inst = [i \in Instances |-> Fresh]
    /\ last = NoCall
    /\ pc = [t \in Threads |-> "idle"]
    /\ tFile = [t \in Threads |-> ""]
    /\ tMap = [t \in Threads |-> None]
    /\ tRet = [t \in Threads |-> None]
    /\ sample \in [pc : {"call"}, file : Paths, x : SampleCoords, y : SampleCoords,
                   interpolate : BOOLEAN]

NextSample == QuerySample

SpecSample == InitSample /\ [][NextSample]_vars

----------------------------------------------------------------------------
(* Properties.                                                              *)

Range(f) == {f[k] : k \in DOMAIN f}

Floor(v) == v \div Den

IsWhole(v) == v % Den = 0

\* the map objects an instance holds
Held(i) == {inst[i].ebvMapNorth, inst[i].ebvMapSouth} \ {None}

\* C1, as the specification states it: each file path is opened and read at most
\* once, and the maps the instances hold for a path are the one cached instance.
OpenedAtMostOnce ==
    /\ \A p \in Paths : nOpen[p] <= 1
    /\ \A i \in Instances : \A m \in Held(i) : m = cache[m.file]

\* C1, amended: over any sequence of resolutions by any number of instances each
\* path is loaded with success at most once; once a path is cached its entry
\* never changes and the file is not opened again; and the map a resolution
\* hands to an instance is the instance the cache holds for that instance's path.
LoadedAtMostOnce ==
    [][/\ \A p \in Paths :
            /\ nLoaded'[p] <= 1
            /\ cache[p] # None =>
                  cache'[p] = cache[p] /\ nOpen'[p] = nOpen[p] /\ nLoaded'[p] = nLoaded[p]
       /\ \A i \in Instances :
            /\ inst'[i].ebvMapNorth # inst[i].ebvMapNorth =>
                  /\ inst'[i].ebvMapNorth = cache'[NorthPath(World, i)]
                  /\ inst'[i].ebvMapNorth # None
            /\ inst'[i].ebvMapSouth # inst[i].ebvMapSouth =>
                  /\ inst'[i].ebvMapSouth = cache'[SouthPath(World, i)]
                  /\ inst'[i].ebvMapSouth # None]_vars

\* two instances hold the same map object, read from a file that was opened once
SharedByTwoInstances ==
    \E i, j \in Instances :
        /\ i # j
        /\ inst[i].ebvMapNorth # None
        /\ inst[j].ebvMapNorth = inst[i].ebvMapNorth
        /\ nOpen[inst[i].ebvMapNorth.file] = 1

\* whether calculateEbv got as far as splitting the batch (line 314)
Routed == /\ last.op = "calculateEbv"
          /\ last.exc \in {NoExc, "IndexError"}
          /\ Len(last.gal) > 0

\* C2: in calculateEbv, every index of a non-empty batch whose latitude is > 0
\* is among the indices queried against the north map and not among the south
\* ones, every index whose latitude is <= 0 is among the south ones and not the
\* north ones, and the values of the two groups come from the north and the
\* south map.
HemisphereRouting ==
    Routed =>
        /\ \A i \in 1..Len(last.gal) :
              IF last.gal[i][2] > 0
              THEN i \in Range(last.inorth) /\ i \notin Range(last.isouth)
              ELSE i \in Range(last.isouth) /\ i \notin Range(last.inorth)
        /\ last.nSet = Columns(last.gal, last.inorth)
        /\ last.sSet = Columns(last.gal, last.isouth)
        /\ last.exc = NoExc =>
              /\ last.ebvNorth = generateEbv(Fields(last.northMap), Row(last.nSet, 1),
                                             Row(last.nSet, 2), last.interp).ebvVal
              /\ last.ebvSouth = generateEbv(Fields(last.southMap), Row(last.sSet, 1),
                                             Row(last.sSet, 2), last.interp).ebvVal

\* a call that returned for a batch of a point at latitude 0 and a northern point
EquatorGoesSouth ==
    /\ Routed
    /\ last.exc = NoExc
    /\ Len(last.inorth) = 1
    /\ Len(last.isouth) = 1
    /\ last.gal[last.isouth[1]][2] = 0

\* the value of the map of its hemisphere at the i-th coordinate of the last call
ValueAt(i) ==
    generateEbv(Fields(IF last.gal[i][2] > 0 THEN last.northMap ELSE last.southMap),
                <<last.gal[i][1]>>, <<last.gal[i][2]>>, last.interp).ebvVal[1]

\* C3: a calculateEbv call that returns for a batch of n coordinates returns n
\* values (None for n = 0), and the i-th value is the one the map of the i-th
\* coordinate's hemisphere gives for that coordinate.
ResultInInputOrder ==
    (last.op = "calculateEbv" /\ last.exc = NoExc) =>
        IF Len(last.gal) = 0
        THEN last.isNone
        ELSE /\ ~last.isNone
             /\ Len(last.ebv) = Len(last.gal)
             /\ \A i \in 1..Len(last.gal) : last.ebv[i] = ValueAt(i)

\* a returned batch with a southern point before a northern one and different values
SouthBeforeNorth ==
    /\ last.op = "calculateEbv"
    /\ last.exc = NoExc
    /\ Len(last.gal) = 2
    /\ last.gal[1][2] <= 0
    /\ last.gal[2][2] > 0
    /\ last.ebv[1] # last.ebv[2]

\* C4: calculateEbv raises the coordinates error when both coordinate arguments
\* are given and when neither is, and in no other case.
CoordinatesChecked ==
    last.op = "calculateEbv" =>
        ((last.exc = "RuntimeError") <=> (last.galGiven <=> last.equGiven))

\* a call with both arguments that raised, the state untouched
BothGivenRaised ==
    /\ last.op = "calculateEbv"
    /\ last.galGiven
    /\ last.equGiven
    /\ last.exc = "RuntimeError"

\* C5: a calculateEbv call on an empty batch, without overrides, on an instance
\* that holds no map returns None and leaves the cache and the instance's
\* ebvMapNorth and ebvMapSouth as they were.
EmptyBatchLoadsNothing ==
    [][(/\ last'.op = "calculateEbv"
        /\ last'.galGiven # last'.equGiven
        /\ Len(last'.gal) = 0
        /\ last'.northArg = None
        /\ last'.southArg = None
        /\ inst[last'.self].ebvMapNorth = None
        /\ inst[last'.self].ebvMapSouth = None)
       => (/\ last'.exc = NoExc
           /\ last'.isNone
           /\ cache' = cache
           /\ inst' = inst)]_vars

\* C6: a step in which no load of a path succeeds leaves the path's cache entry
\* as it was; when the path's file was opened and the load failed, the whole
\* cache is as before and holds no entry for the path, so that the next
\* resolution reads the file again.
FailedLoadLeavesCache ==
    [][\A p \in Paths :
          /\ nLoaded'[p] = nLoaded[p] => cache'[p] = cache[p]
          /\ (nOpen'[p] > nOpen[p] /\ nLoaded'[p] = nLoaded[p]) =>
                cache' = cache /\ cache'[p] = None]_vars

\* a path whose load failed once and succeeded at the next attempt
LoadedAfterFailure ==
    \E p \in Paths : nOpen[p] = 2 /\ nLoaded[p] = 1 /\ cache[p] # None

\* C7: when threads resolve the same uncached path concurrently the path is
\* loaded once, and the threads all return the instance the cache holds.
ConcurrentLoadOnce ==
    \A p \in Paths :
        /\ nLoaded[p] <= 1
        /\ \A t \in Threads : (pc[t] = "done" /\ tFile[t] = p) => tRet[t] = cache[p]

\* C8: for every pixel coordinate pair, in both modes, generateEbv returns a
\* value and every cell it reads has its row in [0, rows-1] and its column in
\* [0, cols-1].
GenerateEbvTotal ==
    sample.pc = "done" =>
        /\ sample.exc = NoExc
        /\ \A c \in sample.cells :
              /\ 0 <= c[1] /\ c[1] <= MapOf(sample.file).nr - 1
              /\ 0 <= c[2] /\ c[2] <= MapOf(sample.file).nc - 1

\* C9: in bilinear mode, at a whole (x, y) with 0 <= x <= cols-1 and
\* 0 <= y <= rows-1, generateEbv returns data[y][x].
ExactAtGridPoints ==
    (/\ sample.pc = "done"
     /\ sample.interpolate
     /\ IsWhole(sample.x) /\ IsWhole(sample.y)
     /\ 0 <= sample.x /\ sample.x <= (MapOf(sample.file).nc - 1) * Den
     /\ 0 <= sample.y /\ sample.y <= (MapOf(sample.file).nr - 1) * Den)
    => /\ sample.exc = NoExc
       /\ sample.ebvVal = At(MapOf(sample.file), Floor(sample.y), Floor(sample.x))

\* C10: in bilinear mode ixLow = min(floor(x), cols-2), ixHigh = ixLow + 1 and
\* dx = x - ixLow, with dx in [0, 1] when 0 <= x <= cols-1; the same for rows.
WindowBoundsThePoint ==
    (sample.pc = "done" /\ sample.interpolate) =>
        /\ sample.ixLow = Min(Floor(sample.x), MapOf(sample.file).nc - 2)
        /\ sample.ixHigh = sample.ixLow + 1
        /\ sample.dx = sample.x - sample.ixLow * Den
        /\ (0 <= sample.x /\ sample.x <= (MapOf(sample.file).nc - 1) * Den) =>
              (0 <= sample.dx /\ sample.dx <= Den)
        /\ sample.iyLow = Min(Floor(sample.y), MapOf(sample.file).nr - 2)
        /\ sample.iyHigh = sample.iyLow + 1
        /\ sample.dy = sample.y - sample.iyLow * Den
        /\ (0 <= sample.y /\ sample.y <= (MapOf(sample.file).nr - 1) * Den) =>
              (0 <= sample.dy /\ sample.dy <= Den)

\* C11: a calculateEbv call without a northMap (southMap) override queries the
\* northern (southern) points of its batch against the map read from the file
\* that the instance's ebvMapNorthName (ebvMapSouthName) names at the time of
\* the call, whenever set_ebvMapNorth (set_ebvMapSouth) was last called.
QueriesTheChosenFile ==
    Routed =>
        /\ (last.northArg = None /\ Len(last.inorth) > 0) =>
              last.northMap.file = NorthPath(World, last.self)
        /\ (last.southArg = None /\ Len(last.isouth) > 0) =>
              last.southMap.file = SouthPath(World, last.self)

====
